---- MODULE Spec2Model ----
(***************************************************************************)
(* Model of src/app.py: the "Monthly Actions Summary" dashboard.           *)
(*                                                                         *)
(* One pass of the script is modelled as a state machine:                   *)
(*   uploaded --load_data--> loaded --sidebar--> selected                   *)
(*            --aggregate--> aggregated --summary--> done                   *)
(* with a KeyError of pandas (a column the code reads is not in the CSV)    *)
(* ending the pass in "error".  The uploaded CSV is text: every cell is a   *)
(* string, and pandas' read_csv / to_datetime turn the text into values.    *)
(*                                                                         *)
(* A dataframe cell is NaN (= <<>>, also standing for NaT and None) or      *)
(* Val(v) (= <<v>>).  Amounts are float64 values, as in the numeric         *)
(* columns of the frame, and their sums round as float64 sums do.           *)
(***************************************************************************)
EXTENDS Integers, Sequences, FiniteSets, TLC

VARIABLES
    pc,          \* position of the script in the current pass
    upload,      \* the uploaded CSV: [columns, rows] (text cells)
    tz,          \* selected_timezone
    warnings,    \* number of st.warning calls of this pass
    df,          \* the frame load_data returned
    domains,     \* the options of the three filter selectboxes
    sel,         \* selected_month, selected_asset, selected_inventory
    filtered,    \* the filtered frame rows
    combined,    \* the merged aggregate table
    totals,      \* the summary metrics
    shown,       \* kinds of output already written to the page
    err          \* the column whose absence raised KeyError ("" when none)

vars == <<pc, upload, tz, warnings, df, domains, sel, filtered, combined, totals, shown, err>>

----------------------------------------------------------------------------
(* Bounds of the model *)

MaxRows == 3

----------------------------------------------------------------------------
(* Cells *)

NaN == <<>>
Val(v) == <<v>>
IsNa(c) == c = NaN
Get(c) == c[1]

RequiredColumns ==
    {"timestamp", "status", "asset", "assetBalance", "shortTermGainLoss", "longTermGainLoss"}

OptionalColumns == {"inventory", "impairmentExpense", "impairmentReversal"}

NumericColumns ==
    {"assetBalance", "shortTermGainLoss", "longTermGainLoss", "impairmentExpense", "impairmentReversal"}

----------------------------------------------------------------------------
(* float64: the values of the numeric columns and their arithmetic *)

\* A finite double is (-1)^neg * mag * 2^-(FracLimbs * LimbBits), with mag a
\* natural number of at most MantissaBits significant bits, written in limbs
\* of LimbBits bits, least significant first, without a leading zero limb.
\* The unit 2^-72 is fine enough for a double of magnitude 2^-19 or more and
\* for every sum and difference of such doubles.
LimbBits == 24
LimbBase == 16777216
FracLimbs == 3
MantissaBits == 53

\* 2^k for 0 <= k < LimbBits.
Pow2(k) ==
    <<1, 2, 4, 8, 16, 32, 64, 128, 256, 512, 1024, 2048, 4096, 8192, 16384,
      32768, 65536, 131072, 262144, 524288, 1048576, 2097152, 4194304,
      8388608>>[k + 1]

Limb(a, i) == IF i <= Len(a) THEN a[i] ELSE 0

RECURSIVE Trim(_)
Trim(a) ==
    IF Len(a) = 0 THEN <<>>
    ELSE IF a[Len(a)] = 0 THEN Trim(SubSeq(a, 1, Len(a) - 1))
    ELSE a

RECURSIVE AddFrom(_, _, _, _)
AddFrom(a, b, i, carry) ==
    IF i > Len(a) /\ i > Len(b) THEN (IF carry = 0 THEN <<>> ELSE <<carry>>)
    ELSE LET t == Limb(a, i) + Limb(b, i) + carry
         IN  <<t % LimbBase>> \o AddFrom(a, b, i + 1, t \div LimbBase)

NatAdd(a, b) == AddFrom(a, b, 1, 0)

RECURSIVE SubFrom(_, _, _, _)
SubFrom(a, b, i, borrow) ==
    IF i > Len(a) THEN <<>>
    ELSE LET d == Limb(a, i) - Limb(b, i) - borrow
         IN  IF d < 0 THEN <<d + LimbBase>> \o SubFrom(a, b, i + 1, 1)
             ELSE <<d>> \o SubFrom(a, b, i + 1, 0)

\* a - b, for a >= b.
NatSub(a, b) == Trim(SubFrom(a, b, 1, 0))

RECURSIVE LessFrom(_, _, _)
LessFrom(a, b, i) ==
    IF i = 0 THEN FALSE
    ELSE IF a[i] # b[i] THEN a[i] < b[i]
    ELSE LessFrom(a, b, i - 1)

NatLess(a, b) == IF Len(a) # Len(b) THEN Len(a) < Len(b) ELSE LessFrom(a, b, Len(a))

\* Long division of a by the small number d, from limb i down: quot holds
\* the limbs of the quotient found so far and rem the running remainder.
RECURSIVE DivFrom(_, _, _, _, _)
DivFrom(a, d, i, quot, rem) ==
    IF i = 0 THEN [quot |-> Trim(quot), rem |-> rem]
    ELSE LET cur == rem * LimbBase + a[i]
         IN  DivFrom(a, d, i - 1, <<cur \div d>> \o quot, cur % d)

NatDivMod(a, d) == DivFrom(a, d, Len(a), <<>>, 0)

\* floor(a / 10^k), and whether the division left a remainder.
RECURSIVE DivPow10(_, _)
DivPow10(a, k) ==
    IF k = 0 THEN [quot |-> a, inexact |-> FALSE]
    ELSE LET r == DivPow10(a, k - 1)
             q == NatDivMod(r.quot, 10)
         IN  [quot |-> q.quot, inexact |-> r.inexact \/ q.rem # 0]

\* The number of bits of the natural number n.
RECURSIVE BitsOf(_)
BitsOf(n) ==
    IF n < 16 THEN <<0, 1, 2, 2, 3, 3, 3, 3, 4, 4, 4, 4, 4, 4, 4, 4>>[n + 1]
    ELSE 4 + BitsOf(n \div 16)

BitLength(a) == IF Len(a) = 0 THEN 0 ELSE (Len(a) - 1) * LimbBits + BitsOf(a[Len(a)])

\* 2^q, a mod 2^q, and bit q of a.
NatPow2(q) ==
    [i \in 1..(q \div LimbBits + 1) |->
        IF i = q \div LimbBits + 1 THEN Pow2(q % LimbBits) ELSE 0]

LowBits(a, q) ==
    Trim([i \in 1..Len(a) |->
            IF i <= q \div LimbBits THEN a[i]
            ELSE IF i = q \div LimbBits + 1 THEN a[i] % Pow2(q % LimbBits)
            ELSE 0])

BitAt(a, q) == (Limb(a, q \div LimbBits + 1) \div Pow2(q % LimbBits)) % 2

\* IEEE 754 round-to-nearest, ties to even, of the number a + f to
\* MantissaBits significant bits, where 0 <= f < 1 and f > 0 iff inexact.
RoundToNearestEven(a, inexact) ==
    LET q == BitLength(a) - MantissaBits
    IN  IF q <= 0 THEN a
        ELSE LET low == LowBits(a, q)
                 half == NatPow2(q - 1)
                 kept == NatSub(a, low)
             IN  IF Len(low) = 0 THEN a
                 ELSE IF \/ NatLess(half, low)
                         \/ low = half /\ (inexact \/ BitAt(a, q) = 1)
                 THEN NatAdd(kept, NatPow2(q))
                 ELSE kept

\* The double of a sign and a magnitude: zero has no sign here.
Float(neg, mag) == [neg |-> neg /\ Len(mag) > 0, mag |-> mag]

\* The natural number n < LimbBase, in units of 2^-(FracLimbs * LimbBits).
FromNat(n) ==
    IF n = 0 THEN <<>>
    ELSE [i \in 1..(FracLimbs + 1) |-> IF i = FracLimbs + 1 THEN n ELSE 0]

Zero == Float(FALSE, <<>>)

FNeg(x) == Float(~x.neg, x.mag)

\* x + y of float64: the exact sum, rounded.
FAdd(x, y) ==
    IF Len(x.mag) = 0 THEN y
    ELSE IF Len(y.mag) = 0 THEN x
    ELSE IF x.neg = y.neg
         THEN Float(x.neg, RoundToNearestEven(NatAdd(x.mag, y.mag), FALSE))
    ELSE IF x.mag = y.mag THEN Zero
    ELSE IF NatLess(x.mag, y.mag)
         THEN Float(y.neg, RoundToNearestEven(NatSub(y.mag, x.mag), FALSE))
         ELSE Float(x.neg, RoundToNearestEven(NatSub(x.mag, y.mag), FALSE))

FSub(x, y) == FAdd(x, FNeg(y))

FLess(x, y) ==
    IF x.neg # y.neg THEN x.neg
    ELSE IF x.neg THEN NatLess(y.mag, x.mag)
    ELSE NatLess(x.mag, y.mag)

----------------------------------------------------------------------------
(* pd.read_csv (line 7): text to cells *)

\* Some of the strings read_csv takes for a missing value by default.
NaValues == {"", "NA", "N/A", "NaN", "nan", "null", "NULL", "None", "#N/A", "n/a"}

\* The decimal numerals of the model's CSV files: the sign, the digits as
\* a natural number, and the number of digits after the point.
Numeral(s) ==
    CASE s = "100" -> [neg |-> FALSE, digits |-> 100, scale |-> 0]
      [] s = "120" -> [neg |-> FALSE, digits |-> 120, scale |-> 0]
      [] s = "150" -> [neg |-> FALSE, digits |-> 150, scale |-> 0]
      [] s = "0.1" -> [neg |-> FALSE, digits |-> 1,   scale |-> 1]
      [] s = "0.2" -> [neg |-> FALSE, digits |-> 2,   scale |-> 1]
      [] s = "0.3" -> [neg |-> FALSE, digits |-> 3,   scale |-> 1]
      [] s = "-3"  -> [neg |-> TRUE,  digits |-> 3,   scale |-> 0]
      [] s = "2"   -> [neg |-> FALSE, digits |-> 2,   scale |-> 0]
      [] s = "1"   -> [neg |-> FALSE, digits |-> 1,   scale |-> 0]
      [] s = "4"   -> [neg |-> FALSE, digits |-> 4,   scale |-> 0]

Numerals == {"100", "120", "150", "0.1", "0.2", "0.3", "-3", "2", "1", "4"}

\* The parser turns the digits into a double and divides it by the power of
\* ten of the scale: the float64 nearest to digits / 10^scale.
strtod(s) ==
    LET d == Numeral(s)
        q == DivPow10(FromNat(d.digits), d.scale)
    IN  Float(d.neg, RoundToNearestEven(q.quot, q.inexact))

\* The double of every numeral of the model's files.
Doubles == [s \in Numerals |-> strtod(s)]

ParseNumber(s) == Doubles[s]

ReadCell(c, s) ==
    IF s \in NaValues THEN NaN
    ELSE IF c \in NumericColumns THEN Val(ParseNumber(s))
    ELSE Val(s)

\* A frame row holds a cell per column and, under "index", the label of the
\* row: read_csv numbers the lines of the file from 0, and the label stays
\* with the row through every selection and sort.
RowFields(columns) == columns \cup {"index"}

read_csv(file) ==
    [columns |-> file.columns,
     rows    |-> [i \in 1..Len(file.rows) |->
                    [c \in RowFields(file.columns) |->
                        IF c = "index" THEN Val(i - 1)
                        ELSE ReadCell(c, file.rows[i][c])]]]

----------------------------------------------------------------------------
(* pd.to_datetime(errors='coerce', utc=True) (line 8) *)

\* The ISO-8601 texts of the model, as (year, month, day, hour) in UTC; any
\* other text does not parse.
IsoFields(text) ==
    CASE text = "2024-01-05T00:00Z" -> <<2024, 1, 5, 0>>
      [] text = "2024-01-20T00:00Z" -> <<2024, 1, 20, 0>>
      [] text = "2024-01-31T20:00Z" -> <<2024, 1, 31, 20>>
      [] OTHER -> NaN

\* Days of 2024 before the first of month m (m = 13: the whole year).
DaysBeforeMonth(m) ==
    CASE m = 1 -> 0   [] m = 2 -> 31  [] m = 3 -> 60  [] m = 4 -> 91
      [] m = 5 -> 121 [] m = 6 -> 152 [] m = 7 -> 182 [] m = 8 -> 213
      [] m = 9 -> 244 [] m = 10 -> 274 [] m = 11 -> 305 [] m = 12 -> 335
      [] OTHER -> 366

\* Mutant of to_datetime: a text that is not a date becomes the epoch of the
\* model instead of NaT.
to_datetime_epoch(cell) ==
    IF IsNa(cell) THEN Val(0)
    ELSE LET f == IsoFields(Get(cell))
         IN  IF IsNa(f) THEN Val(0)
             ELSE Val((DaysBeforeMonth(f[2]) + f[3] - 1) * 24 + f[4])

\* An instant is the number of hours since 2024-01-01T00:00Z.
to_datetime(cell) ==
    IF IsNa(cell) THEN NaN
    ELSE LET f == IsoFields(Get(cell))
         IN  IF IsNa(f) THEN NaN
             ELSE Val((DaysBeforeMonth(f[2]) + f[3] - 1) * 24 + f[4])

----------------------------------------------------------------------------
(* .dt.tz_convert (line 12) and .dt.to_period('M') (line 16) *)

\* The identifiers the timezone database knows, among those of the model.
KnownTimezones == {"UTC", "Asia/Tokyo"}

UtcOffsetHours(zone) == IF zone = "Asia/Tokyo" THEN 9 ELSE 0

\* Mutant of tz_convert_fails: no identifier is rejected.
tz_convert_never_fails(zone) == FALSE

\* tz_convert raises for an unknown zone and the except clause keeps the
\* column as it was: in UTC.
tz_convert_fails(zone) == zone \notin KnownTimezones

ColumnTimezone(zone) == IF tz_convert_fails(zone) THEN "UTC" ELSE zone

\* Mutant of to_period: a missing instant counts as the epoch of the model.
to_period_of_epoch(instant, zone) ==
    LET h == (IF IsNa(instant) THEN 0 ELSE Get(instant)) + UtcOffsetHours(zone)
        m == CHOOSE k \in 1..12 :
                /\ DaysBeforeMonth(k) * 24 <= h
                /\ h < DaysBeforeMonth(k + 1) * 24
    IN  Val(<<2024, m>>)

\* The calendar month of the wall clock of an instant in a zone.
to_period(instant, zone) ==
    IF IsNa(instant) THEN NaN
    ELSE LET h == Get(instant) + UtcOffsetHours(zone)
             m == CHOOSE k \in 1..12 :
                     /\ DaysBeforeMonth(k) * 24 <= h
                     /\ h < DaysBeforeMonth(k + 1) * 24
         IN  Val(<<2024, m>>)

----------------------------------------------------------------------------
(* load_data (lines 6-25) *)

\* Lines 8-16: the frame with parsed timestamps and the month column.
WithMonth(raw, zone) ==
    [columns |-> raw.columns \cup {"month"},
     tz      |-> ColumnTimezone(zone),
     rows    |-> [i \in 1..Len(raw.rows) |->
                    LET r == raw.rows[i]
                        t == to_datetime(r["timestamp"])
                    IN  [c \in RowFields(raw.columns \cup {"month"}) |->
                            IF c = "timestamp" THEN t
                            ELSE IF c = "month" THEN to_period(t, ColumnTimezone(zone))
                            ELSE r[c]]]]

\* Mutant of KeepRow: df[df['status'] != 'pending'].
KeepRowNotPending(r) == r["status"] # Val("pending")

\* Line 17: df[df['status'] == 'complete'].
KeepRow(r) == r["status"] = Val("complete")

StatusFilter(rows) == SelectSeq(rows, KeepRow)

\* Mutant of FillInventory: the first branch always, df['inventory'] =
\* 'Unspecified'.
FillInventoryAlways(columns, r) ==
    [c \in RowFields(columns \cup {"inventory"}) |->
        IF c = "inventory" THEN Val("Unspecified") ELSE r[c]]

\* Lines 20-23: the inventory default.
FillInventory(columns, r) ==
    [c \in RowFields(columns \cup {"inventory"}) |->
        IF c = "inventory"
        THEN IF "inventory" \notin columns THEN Val("Unspecified")
             ELSE IF IsNa(r["inventory"]) THEN Val("Unspecified")
             ELSE r["inventory"]
        ELSE r[c]]

load_data(file, zone) ==
    LET f    == WithMonth(read_csv(file), zone)
        kept == StatusFilter(f.rows)
    IN  [columns |-> f.columns \cup {"inventory"},
         tz      |-> f.tz,
         rows    |-> [i \in 1..Len(kept) |-> FillInventory(f.columns, kept[i])]]

----------------------------------------------------------------------------
(* Orders: Python's sorted() of the selectbox options and the sorted group  *)
(* keys of DataFrame.groupby                                                *)

PeriodOrd(p) == p[1] * 12 + p[2]

\* The order of Python's str comparison on the strings of the model.
StrRank(s) ==
    CASE s = "ADA" -> 1
      [] s = "BTC" -> 2
      [] s = "Main" -> 3
      [] s = "Unspecified" -> 4
      [] OTHER -> 5

RECURSIVE SortedPeriods(_)
SortedPeriods(S) ==
    IF S = {} THEN <<>>
    ELSE LET m == CHOOSE x \in S : \A y \in S : PeriodOrd(x) <= PeriodOrd(y)
         IN  <<m>> \o SortedPeriods(S \ {m})

RECURSIVE SortedStrings(_)
SortedStrings(S) ==
    IF S = {} THEN <<>>
    ELSE LET m == CHOOSE x \in S : \A y \in S : StrRank(x) <= StrRank(y)
         IN  <<m>> \o SortedStrings(S \ {m})

\* df[c].dropna().unique()
Unique(rows, c) == {Get(rows[i][c]) : i \in {j \in 1..Len(rows) : ~IsNa(rows[j][c])}}

Range(seq) == {seq[i] : i \in 1..Len(seq)}

----------------------------------------------------------------------------
(* main, lines 47-54: the sidebar filters *)

months(frame)      == SortedPeriods(Unique(frame.rows, "month"))
assets(frame)      == SortedStrings(Unique(frame.rows, "asset"))
inventories(frame) == SortedStrings(Unique(frame.rows, "inventory"))

\* st.selectbox returns one of its options, or None when it has none.
MonthChoices(opts) == IF opts = <<>> THEN {NaN} ELSE {Val(o) : o \in Range(opts)}
NameChoices(opts)  == {"All"} \cup Range(opts)

----------------------------------------------------------------------------
(* main, lines 56-61: the filter *)

MonthMatches(r, selected_month) ==
    /\ ~IsNa(r["month"])
    /\ ~IsNa(selected_month)
    /\ r["month"] = selected_month

NameMatches(cell, selected) == selected = "All" \/ cell = Val(selected)

FilterRows(rows, s) ==
    LET Keep(r) == /\ MonthMatches(r, s.month)
                   /\ NameMatches(r["asset"], s.asset)
                   /\ NameMatches(r["inventory"], s.inventory)
    IN  SelectSeq(rows, Keep)

----------------------------------------------------------------------------
(* main, lines 64-69: latest_balance *)

Front(seq) == SubSeq(seq, 1, Len(seq) - 1)
Last(seq)  == seq[Len(seq)]

\* sort_values sorts by one column with kind='quicksort', the default:
\* numpy's argsort of the instants, an introsort that partitions a range of
\* more than SMALL_QUICKSORT + 1 elements around the median of three and
\* sorts a shorter range by insertion.  (Its fall back to heapsort, after
\* 2 * floor(log2(n)) nested partitions, is out of reach of the files of
\* the model.)
SMALL_QUICKSORT == 16

ComesBefore(r, l) == Get(r["timestamp"]) < Get(l["timestamp"])

\* One step of the insertion sort: the row moves left past the rows whose
\* instant is strictly greater.
RECURSIVE InsertSorted(_, _)
InsertSorted(sorted, r) ==
    IF sorted = <<>> THEN <<r>>
    ELSE IF ComesBefore(r, Last(sorted))
         THEN Append(InsertSorted(Front(sorted), r), Last(sorted))
         ELSE Append(sorted, r)

RECURSIVE InsertionSort(_)
InsertionSort(rows) ==
    IF rows = <<>> THEN <<>>
    ELSE InsertSorted(InsertionSort(Front(rows)), Last(rows))

Swap(t, i, j) == [t EXCEPT ![i] = t[j], ![j] = t[i]]

SwapIfBefore(t, i, j) == IF ComesBefore(t[i], t[j]) THEN Swap(t, i, j) ELSE t

\* The median of the first, the middle and the last row goes to the middle.
MedianOfThree(t, pl, pm, pr) ==
    SwapIfBefore(SwapIfBefore(SwapIfBefore(t, pm, pl), pr, pm), pm, pl)

RECURSIVE ScanUp(_, _, _)
ScanUp(t, vp, pi) == IF ComesBefore(t[pi], vp) THEN ScanUp(t, vp, pi + 1) ELSE pi

RECURSIVE ScanDown(_, _, _)
ScanDown(t, vp, pj) == IF ComesBefore(vp, t[pj]) THEN ScanDown(t, vp, pj - 1) ELSE pj

RECURSIVE PartitionLoop(_, _, _, _)
PartitionLoop(t, vp, pi, pj) ==
    LET i == ScanUp(t, vp, pi + 1)
        j == ScanDown(t, vp, pj - 1)
    IN  IF i >= j THEN [t |-> t, pi |-> i]
        ELSE PartitionLoop(Swap(t, i, j), vp, i, j)

\* The rows of pl..pr around the pivot, and the place of the pivot.
Partition(t, pl, pr) ==
    LET pm == pl + ((pr - pl) \div 2)
        m  == MedianOfThree(t, pl, pm, pr)
        p  == PartitionLoop(Swap(m, pm, pr - 1), m[pm], pl, pr - 1)
    IN  [t |-> Swap(p.t, p.pi, pr - 1), pi |-> p.pi]

RECURSIVE aquicksort(_, _, _)
aquicksort(t, pl, pr) ==
    IF pr - pl > SMALL_QUICKSORT
    THEN LET p == Partition(t, pl, pr)
         IN  aquicksort(aquicksort(p.t, pl, p.pi - 1), p.pi + 1, pr)
    ELSE SubSeq(t, 1, pl - 1) \o InsertionSort(SubSeq(t, pl, pr)) \o SubSeq(t, pr + 1, Len(t))

\* filtered.sort_values('timestamp'): ascending, NaT last.
sort_values(rows) ==
    LET HasInstant(r) == ~IsNa(r["timestamp"])
        NoInstant(r)  == IsNa(r["timestamp"])
        timed         == SelectSeq(rows, HasInstant)
    IN  aquicksort(timed, 1, Len(timed)) \o SelectSeq(rows, NoInstant)

GroupColumns == <<"month", "asset", "inventory">>

Key(r) == <<r["month"], r["asset"], r["inventory"]>>

\* groupby drops the rows with a missing value in a key column (dropna=True).
HasKey(r) == \A i \in 1..3 : ~IsNa(Key(r)[i])

\* The rank of a name cell among the group keys (a missing one comes last).
NameRank(cell) == IF IsNa(cell) THEN StrRank("") + 1 ELSE StrRank(Get(cell))

KeyLess(a, b) ==
    \/ PeriodOrd(Get(a[1])) < PeriodOrd(Get(b[1]))
    \/ /\ a[1] = b[1]
       /\ \/ NameRank(a[2]) < NameRank(b[2])
          \/ a[2] = b[2] /\ NameRank(a[3]) < NameRank(b[3])

RECURSIVE SortedKeys(_)
SortedKeys(S) ==
    IF S = {} THEN <<>>
    ELSE LET m == CHOOSE x \in S : \A y \in S \ {x} : KeyLess(x, y)
         IN  <<m>> \o SortedKeys(S \ {m})

\* The group keys of a frame, in the order groupby(sort=True) gives them.
GroupKeys(rows) == SortedKeys({Key(rows[i]) : i \in {j \in 1..Len(rows) : HasKey(rows[j])}})

\* The rows of one group, in the order of the frame.
GroupRows(rows, k) ==
    LET InGroup(r) == Key(r) = k
    IN  SelectSeq(rows, InGroup)

Column(rows, c) == [i \in 1..Len(rows) |-> rows[i][c]]

\* Mutant of GroupLast: GroupBy.first().
RECURSIVE GroupFirst(_)
GroupFirst(cells) ==
    IF cells = <<>> THEN NaN
    ELSE IF IsNa(Head(cells)) THEN GroupFirst(Tail(cells))
    ELSE Head(cells)

\* GroupBy.last(): the last value of the column in the group that is not NaN.
RECURSIVE GroupLast(_)
GroupLast(cells) ==
    IF cells = <<>> THEN NaN
    ELSE IF IsNa(Last(cells)) THEN GroupLast(Front(cells))
    ELSE Last(cells)

latest_balance(rows) ==
    LET sorted == sort_values(rows)
        keys   == GroupKeys(sorted)
    IN  [i \in 1..Len(keys) |->
            [c \in {"month", "asset", "inventory", "ending_balance"} |->
                CASE c = "month"     -> keys[i][1]
                  [] c = "asset"     -> keys[i][2]
                  [] c = "inventory" -> keys[i][3]
                  [] OTHER -> GroupLast(Column(GroupRows(sorted, keys[i]), "assetBalance"))]]

----------------------------------------------------------------------------
(* main, lines 71-84: gain_loss_summary *)

agg_fields(columns) ==
    {"shortTermGainLoss", "longTermGainLoss"}
        \cup (columns \cap {"impairmentExpense", "impairmentReversal"})

\* GroupBy.sum() of a float64 column (pandas' group_sum): the cells of the
\* group that are not missing are added in the order of the frame with
\* Kahan's compensated summation; a group without any gives 0.
RECURSIVE KahanFrom(_, _, _)
KahanFrom(cells, sumx, compensation) ==
    IF cells = <<>> THEN sumx
    ELSE IF IsNa(Head(cells)) THEN KahanFrom(Tail(cells), sumx, compensation)
    ELSE LET y == FSub(Get(Head(cells)), compensation)
             t == FAdd(sumx, y)
         IN  KahanFrom(Tail(cells), t, FSub(FSub(t, sumx), y))

group_sum(cells) == KahanFrom(cells, Zero, Zero)

gain_loss_summary(rows, fields) ==
    LET keys == GroupKeys(rows)
    IN  [i \in 1..Len(keys) |->
            [c \in {"month", "asset", "inventory"} \cup fields |->
                CASE c = "month"     -> keys[i][1]
                  [] c = "asset"     -> keys[i][2]
                  [] c = "inventory" -> keys[i][3]
                  [] OTHER -> Val(group_sum(Column(GroupRows(rows, keys[i]), c)))]]

----------------------------------------------------------------------------
(* main, lines 86-91: pd.merge(..., how='left') *)

WithBalance(l, cell) ==
    [c \in DOMAIN l \cup {"ending_balance"} |-> IF c = "ending_balance" THEN cell ELSE l[c]]

\* Mutant of JoinRow: on=['month', 'asset'].
JoinRowOnAsset(l, right) ==
    LET Match(b) == \A i \in 1..2 : b[GroupColumns[i]] = l[GroupColumns[i]]
        m == SelectSeq(right, Match)
    IN  IF m = <<>> THEN <<WithBalance(l, NaN)>>
        ELSE [i \in 1..Len(m) |-> WithBalance(l, m[i]["ending_balance"])]

\* The rows a left row gives: one per matching right row, and one with a
\* missing ending_balance when nothing matches.
JoinRow(l, right) ==
    LET Match(b) == \A i \in 1..3 : b[GroupColumns[i]] = l[GroupColumns[i]]
        m == SelectSeq(right, Match)
    IN  IF m = <<>> THEN <<WithBalance(l, NaN)>>
        ELSE [i \in 1..Len(m) |-> WithBalance(l, m[i]["ending_balance"])]

RECURSIVE merge(_, _)
merge(left, right) ==
    IF left = <<>> THEN <<>>
    ELSE JoinRow(Head(left), right) \o merge(Tail(left), right)

aggregate(rows, columns) ==
    merge(gain_loss_summary(rows, agg_fields(columns)), latest_balance(rows))

----------------------------------------------------------------------------
(* main, lines 93-109: the summary metrics *)

\* numpy's add.reduce over a float64 array (pairwise_sum): fewer than
\* PW_UNROLL values are added one after the other; more are added in
\* PW_UNROLL running sums that are then added in pairs, the values left over
\* after them; and more than PW_BLOCKSIZE are split in two halves.
PW_UNROLL == 8
PW_BLOCKSIZE == 128

RECURSIVE AddEach(_, _)
AddEach(res, a) == IF a = <<>> THEN res ELSE AddEach(FAdd(res, Head(a)), Tail(a))

RECURSIVE Lane(_, _, _, _)
Lane(a, k, i, r) ==
    IF i + PW_UNROLL > Len(a) THEN r
    ELSE Lane(a, k, i + PW_UNROLL, FAdd(r, a[i + k]))

RECURSIVE pairwise_sum(_)
pairwise_sum(a) ==
    LET n == Len(a)
    IN  IF n < PW_UNROLL THEN AddEach(Zero, a)
        ELSE IF n <= PW_BLOCKSIZE
        THEN LET r == [k \in 1..PW_UNROLL |-> Lane(a, k, PW_UNROLL, a[k])]
                 res == FAdd(FAdd(FAdd(r[1], r[2]), FAdd(r[3], r[4])),
                             FAdd(FAdd(r[5], r[6]), FAdd(r[7], r[8])))
             IN  AddEach(res, SubSeq(a, n - (n % PW_UNROLL) + 1, n))
        ELSE LET n2 == (n \div 2) - ((n \div 2) % PW_UNROLL)
             IN  FAdd(pairwise_sum(SubSeq(a, 1, n2)), pairwise_sum(SubSeq(a, n2 + 1, n)))

\* Series.sum() (pandas' nansum): a missing value counts as 0, and the sum
\* starts from 0.
nansum(cells) ==
    FAdd(Zero, pairwise_sum([i \in 1..Len(cells) |->
                                IF IsNa(cells[i]) THEN Zero ELSE Get(cells[i])]))

summarize(table, columns) ==
    [c \in agg_fields(columns) |-> nansum(Column(table, c))]

----------------------------------------------------------------------------
(* The uploaded files of the model *)

Columns == RequiredColumns \cup OptionalColumns

CsvRow(ts, status, asset, inventory, balance, st) ==
    [c \in Columns |->
        CASE c = "timestamp"         -> ts
          [] c = "status"            -> status
          [] c = "asset"             -> asset
          [] c = "inventory"         -> inventory
          [] c = "assetBalance"      -> balance
          [] c = "shortTermGainLoss" -> st
          [] c = "longTermGainLoss"  -> "2"
          [] c = "impairmentExpense" -> "1"
          [] OTHER                   -> "4"]

\* The lines a file is made of: a base line and lines that differ from it in
\* the instant, the balance, the status, the asset, the inventory or the
\* presence of a cell.
RowPool ==
    { CsvRow("2024-01-05T00:00Z", "complete", "BTC", "Main", "150", "0.2"),
      CsvRow("2024-01-31T20:00Z", "complete", "BTC", "Main", "120", "0.2"),
      CsvRow("2024-01-31T20:00Z", "complete", "BTC", "Main", "",    "-3"),
      CsvRow("2024-01-20T00:00Z", "complete", "ADA", "",     "150", "0.1"),
      CsvRow("2024-01-05T00:00Z", "complete", "BTC", "NA",   "100", "0.3"),
      CsvRow("not-a-date",        "complete", "BTC", "Main", "150", "0.2"),
      CsvRow("2024-01-05T00:00Z", "pending",  "BTC", "Main", "150", "0.2"),
      CsvRow("2024-01-05T00:00Z", "",         "ADA", "Main", "150", "0.2"),
      CsvRow("2024-01-05T00:00Z", "complete", "",    "Main", "100", "0.2") }

\* The headers of the model's well-formed files: every column, and the
\* required columns only.
Headers == {Columns, RequiredColumns}

\* Those and the headers that lack one required column.
SchemaHeaders ==
    Headers \cup {(RequiredColumns \cup {"inventory"}) \ {c} : c \in RequiredColumns}

Timezones == {"UTC", "Asia/Tokyo", "Mars/Phobos"}

Restrict(r, columns) == [c \in columns |-> r[c]]

\* The file with header h and the given lines.
FileOf(h, lines) ==
    [columns |-> h, rows |-> [i \in 1..Len(lines) |-> Restrict(lines[i], h)]]

\* Files of one group, long enough for the quicksort of sort_values to
\* partition: two lines share the latest instant and differ in the balance,
\* every other line is earlier.
LongRows == SMALL_QUICKSORT + 2

LongFiles ==
    { [columns |-> Columns,
       rows    |-> [n \in 1..LongRows |->
                      IF n = pq[1]
                      THEN CsvRow("2024-01-20T00:00Z", "complete", "BTC", "Main", "150", "-3")
                      ELSE IF n = pq[2]
                      THEN CsvRow("2024-01-20T00:00Z", "complete", "BTC", "Main", "120", "0.2")
                      ELSE CsvRow("2024-01-05T00:00Z", "complete", "BTC", "Main", "100", "0.1")]]
      : pq \in {x \in (1..LongRows) \X (1..LongRows) : x[1] # x[2]} }

----------------------------------------------------------------------------
(* The state machine *)

NoFrame     == [columns |-> {}, tz |-> "", rows |-> <<>>]
NoDomains   == [months |-> <<>>, assets |-> <<>>, inventories |-> <<>>]
NoSelection == [month |-> NaN, asset |-> "All", inventory |-> "All"]

Start(file) ==
    /\ pc = "uploaded"
    /\ upload = file
    /\ tz \in Timezones
    /\ warnings = 0
    /\ df = NoFrame
    /\ domains = NoDomains
    /\ sel = NoSelection
    /\ filtered = <<>>
    /\ combined = <<>>
    /\ totals = <<>>
    /\ shown = {}
    /\ err = ""

\* A file of at most MaxRows lines is uploaded.
InitWith(headers) ==
    \E h \in headers, n \in 0..MaxRows :
        \E lines \in [1..n -> RowPool] : Start(FileOf(h, lines))

Init == InitWith(Headers)

\* The first column among those read, in the order the code reads them,
\* that the frame lacks ("" when it has them all).
RECURSIVE FirstMissing(_, _)
FirstMissing(needed, columns) ==
    IF needed = <<>> THEN ""
    ELSE IF Head(needed) \notin columns THEN Head(needed)
    ELSE FirstMissing(Tail(needed), columns)

\* Lines 6-25 and 44: df = load_data(uploaded_file, selected_timezone).
\* Line 8 reads 'timestamp' before the timezone conversion; line 17 reads
\* 'status' after it.
LoadData ==
    /\ pc = "uploaded"
    /\ LET missing == FirstMissing(<<"timestamp", "status">>, upload.columns)
           warned  == missing # "timestamp" /\ tz_convert_fails(tz)
       IN  /\ warnings' = IF warned THEN warnings + 1 ELSE warnings
           /\ shown' = IF warned THEN shown \cup {"warning"} ELSE shown
           /\ err' = missing
           /\ IF missing = ""
              THEN pc' = "loaded" /\ df' = load_data(upload, tz)
              ELSE pc' = "error" /\ df' = df
    /\ UNCHANGED <<upload, tz, domains, sel, filtered, combined, totals>>

\* Lines 47-54: the options are computed (line 49 reads 'asset'), then the
\* three selectboxes are drawn and the user's choices returned.
Sidebar ==
    /\ pc = "loaded"
    /\ IF "asset" \notin df.columns
       THEN /\ pc' = "error"
            /\ err' = "asset"
            /\ UNCHANGED <<domains, sel, shown>>
       ELSE /\ pc' = "selected"
            /\ err' = err
            /\ domains' = [months |-> months(df), assets |-> assets(df),
                           inventories |-> inventories(df)]
            /\ shown' = shown \cup {"filters"}
            /\ \E m \in MonthChoices(months(df)),
                  a \in NameChoices(assets(df)),
                  i \in NameChoices(inventories(df)) :
                    sel' = [month |-> m, asset |-> a, inventory |-> i]
    /\ UNCHANGED <<upload, tz, warnings, df, filtered, combined, totals>>

\* Lines 56-91: filter, latest_balance (line 67 reads 'assetBalance'),
\* gain_loss_summary (line 81 reads the gain/loss columns), merge.
Aggregate ==
    /\ pc = "selected"
    /\ filtered' = FilterRows(df.rows, sel)
    /\ LET missing == FirstMissing(<<"assetBalance", "shortTermGainLoss", "longTermGainLoss">>,
                                   df.columns)
       IN  /\ err' = missing
           /\ IF missing = ""
              THEN /\ pc' = "aggregated"
                   /\ combined' = aggregate(FilterRows(df.rows, sel), df.columns)
              ELSE /\ pc' = "error"
                   /\ combined' = combined
    /\ UNCHANGED <<upload, tz, warnings, df, domains, sel, totals, shown>>

\* Lines 93-115: the metrics and the detail table are written to the page.
Summarize ==
    /\ pc = "aggregated"
    /\ totals' = summarize(combined, df.columns)
    /\ shown' = shown \cup {"summary", "table"}
    /\ pc' = "done"
    /\ UNCHANGED <<upload, tz, warnings, df, domains, sel, filtered, combined, err>>

\* Streamlit runs the script again, from the top, when the user changes a
\* widget: nothing of the previous pass is kept but the uploaded file.
Rerun ==
    /\ pc \in {"done", "error"}
    /\ pc' = "uploaded"
    /\ tz' \in Timezones
    /\ warnings' = 0
    /\ df' = NoFrame
    /\ domains' = NoDomains
    /\ sel' = NoSelection
    /\ filtered' = <<>>
    /\ combined' = <<>>
    /\ totals' = <<>>
    /\ shown' = {}
    /\ err' = ""
    /\ UNCHANGED upload

Next == LoadData \/ Sidebar \/ Aggregate \/ Summarize \/ Rerun

Spec == Init /\ [][Next]_vars

\* The passes over the files that may lack a required column.
InitSchema == InitWith(SchemaHeaders)

SpecSchema == InitSchema /\ [][Next]_vars

\* The passes over the files long enough for sort_values to partition.
InitLong == \E file \in LongFiles : Start(file)

SpecLong == InitLong /\ [][Next]_vars

----------------------------------------------------------------------------
(* Vocabulary of the properties *)

\* load_data has returned in this pass.
Loaded ==
    \/ pc \in {"loaded", "selected", "aggregated", "done"}
    \/ pc = "error" /\ err \notin {"timestamp", "status"}

\* The aggregate table of this pass has been computed.
Aggregated == pc \in {"aggregated", "done"}

\* The line of the uploaded file a frame row was read from.
RawOf(r) == upload.rows[Get(r["index"]) + 1]

\* The timestamp text of the line is not a date.
Unparseable(r) == RawOf(r)["timestamp"] \notin
    {"2024-01-05T00:00Z", "2024-01-20T00:00Z", "2024-01-31T20:00Z"}

FilteredIdx == 1..Len(filtered)

\* The filtered records of the group an aggregate row stands for.
GroupOf(row) == {i \in FilteredIdx : \A c \in {"month", "asset", "inventory"} :
                                        filtered[i][c] = row[c]}

Instant(i) == Get(filtered[i]["timestamp"])
Label(i)   == Get(filtered[i]["index"])
Balance(i) == filtered[i]["assetBalance"]

\* The records of S with the greatest instant.
Latest(S) == {i \in S : \A j \in S : Instant(j) <= Instant(i)}

WithBalanceOnly(S) == {i \in S : ~IsNa(Balance(i))}

RowKey(row) == <<row["month"], row["asset"], row["inventory"]>>

----------------------------------------------------------------------------
(* C1: ending_balance is the assetBalance of the latest record of the group *)

\* C1 as stated: every aggregate row's ending_balance is the assetBalance
\* cell of a record with the greatest instant of its group.
C1_EndingBalanceOfLatestRecord ==
    Aggregated =>
        \A k \in 1..Len(combined) :
            combined[k]["ending_balance"] \in
                {Balance(i) : i \in Latest(GroupOf(combined[k]))}

\* C1, amended: every aggregate row's ending_balance is the assetBalance of a
\* record with the greatest instant among the records of its group that have
\* an assetBalance, and is missing when no record of the group has one.
C1_EndingBalanceOfLatestKnown ==
    Aggregated =>
        \A k \in 1..Len(combined) :
            LET known == WithBalanceOnly(GroupOf(combined[k]))
            IN  IF known = {} THEN IsNa(combined[k]["ending_balance"])
                ELSE combined[k]["ending_balance"] \in {Balance(i) : i \in Latest(known)}

\* A group whose latest record comes first in the file and has a smaller
\* balance than an earlier record, and whose row shows the latest balance.
C1_Witness ==
    /\ Aggregated
    /\ \E k \in 1..Len(combined) : \E i, j \in GroupOf(combined[k]) :
          /\ Instant(i) > Instant(j)
          /\ Label(i) < Label(j)
          /\ ~IsNa(Balance(i)) /\ ~IsNa(Balance(j))
          /\ FLess(Get(Balance(i)), Get(Balance(j)))
          /\ combined[k]["ending_balance"] = Balance(i)

----------------------------------------------------------------------------
(* C2: ties at the greatest instant go to the last line of the file *)

\* C2 as stated: when several records of a group share its greatest
\* instant, ending_balance is the assetBalance cell of the one that comes
\* last in the file.
C2_TieGoesToLastInFile ==
    Aggregated =>
        \A k \in 1..Len(combined) :
            LET tied == Latest(GroupOf(combined[k]))
            IN  Cardinality(tied) >= 2 =>
                    \E i \in tied :
                        /\ \A j \in tied : Label(j) <= Label(i)
                        /\ combined[k]["ending_balance"] = Balance(i)

----------------------------------------------------------------------------
(* C3: one aggregate row per group of the filtered records *)

NoRowTwice == \A k, l \in 1..Len(combined) : k # l => RowKey(combined[k]) # RowKey(combined[l])

\* C3 as stated: the keys of the aggregate rows are pairwise distinct and
\* are exactly the (period, asset, inventory) combinations of the filtered
\* records.
C3_OneRowPerCombination ==
    Aggregated =>
        /\ NoRowTwice
        /\ {RowKey(combined[k]) : k \in 1..Len(combined)} = {Key(filtered[i]) : i \in FilteredIdx}

\* C3, amended: the keys of the aggregate rows are pairwise distinct and are
\* exactly the combinations of the filtered records that have an asset; a
\* filtered record whose asset cell is missing gives no row.
C3_OneRowPerCombinationWithAsset ==
    Aggregated =>
        /\ NoRowTwice
        /\ {RowKey(combined[k]) : k \in 1..Len(combined)}
              = {Key(filtered[i]) : i \in {j \in FilteredIdx : ~IsNa(filtered[j]["asset"])}}

\* Two rows for two inventories of one asset, from more records than rows.
C3_Witness ==
    /\ Aggregated
    /\ Len(filtered) > Len(combined)
    /\ \E k, l \in 1..Len(combined) :
          /\ combined[k]["asset"] = combined[l]["asset"]
          /\ combined[k]["inventory"] # combined[l]["inventory"]

----------------------------------------------------------------------------
(* C4: a group whose timestamps all fail to parse *)

\* The frame records with the asset and inventory of r.
SameNames(r) == {i \in 1..Len(df.rows) :
                    /\ df.rows[i]["asset"] = r["asset"]
                    /\ df.rows[i]["inventory"] = r["inventory"]}

AllUnparseable(r) == \A i \in SameNames(r) : Unparseable(df.rows[i])

\* C4 as stated: a group of records that all have unparseable timestamps,
\* of an asset and inventory the selection admits, has a row in the
\* aggregate table, with a missing ending_balance.
C4_UnparseableGroupHasRow ==
    Aggregated =>
        \A i \in 1..Len(df.rows) :
            LET r == df.rows[i]
            IN  (/\ ~IsNa(r["asset"])
                 /\ AllUnparseable(r)
                 /\ NameMatches(r["asset"], sel.asset)
                 /\ NameMatches(r["inventory"], sel.inventory))
                => \E k \in 1..Len(combined) :
                      /\ combined[k]["asset"] = r["asset"]
                      /\ combined[k]["inventory"] = r["inventory"]
                      /\ IsNa(combined[k]["ending_balance"])

\* C4, amended: a group of records that all have unparseable timestamps has
\* no row: every aggregate row has a period and stands for at least one
\* record with a parseable timestamp, and its ending_balance is missing only
\* when no record of its group has an assetBalance.
C4_UnparseableGroupHasNoRow ==
    Aggregated =>
        \A k \in 1..Len(combined) :
            /\ ~IsNa(combined[k]["month"])
            /\ \E i \in GroupOf(combined[k]) : ~Unparseable(filtered[i])
            /\ \A i \in 1..Len(df.rows) :
                  (/\ df.rows[i]["asset"] = combined[k]["asset"]
                   /\ df.rows[i]["inventory"] = combined[k]["inventory"])
                  => ~AllUnparseable(df.rows[i])
            /\ IsNa(combined[k]["ending_balance"]) => WithBalanceOnly(GroupOf(combined[k])) = {}

\* A frame with a group of unparseable timestamps only, aggregated together
\* with another group that has a balance.
C4_Witness ==
    /\ Aggregated
    /\ sel.asset = "All" /\ sel.inventory = "All"
    /\ \E i \in 1..Len(df.rows) : ~IsNa(df.rows[i]["asset"]) /\ AllUnparseable(df.rows[i])
    /\ \E k \in 1..Len(combined) : ~IsNa(combined[k]["ending_balance"])

----------------------------------------------------------------------------
(* C5: a record whose timestamp fails to parse *)

ParseableRows(rows) ==
    LET Parses(r) == ~Unparseable(r)
    IN  SelectSeq(rows, Parses)

\* C5: load_data gives every record with an unparseable timestamp a missing
\* instant and a missing period and raises nothing for it; no such record is
\* among the filtered records, and the aggregate table is the one the
\* records with parseable timestamps give alone.
C5_UnparseableRecordCountsNowhere ==
    /\ Loaded =>
          \A i \in 1..Len(df.rows) :
              Unparseable(df.rows[i]) =>
                  IsNa(df.rows[i]["timestamp"]) /\ IsNa(df.rows[i]["month"])
    /\ pc = "error" => err \in RequiredColumns
    /\ Aggregated =>
          /\ \A i \in FilteredIdx : ~Unparseable(filtered[i])
          /\ combined = aggregate(FilterRows(ParseableRows(df.rows), sel), df.columns)

\* A record with an unparseable timestamp, complete, next to a filtered
\* record of the same asset and inventory whose timestamp parses.
C5_Witness ==
    /\ Aggregated
    /\ \E i \in 1..Len(df.rows) : \E j \in FilteredIdx :
          /\ Unparseable(df.rows[i])
          /\ df.rows[i]["asset"] = filtered[j]["asset"]
          /\ df.rows[i]["inventory"] = filtered[j]["inventory"]
    /\ Len(combined) >= 1

----------------------------------------------------------------------------
(* C6: an invalid timezone identifier *)

\* C6: with the timezone "Mars/Phobos" and every required column in the
\* file, the pass never ends in an error; once load_data has returned there
\* has been exactly one warning, the timestamp column is in UTC, every
\* period is the UTC month of its instant (the frame is the one the timezone
\* "UTC" gives); and the pass ends with the summary and the table shown.
C6_InvalidTimezoneFallsBackToUtc ==
    (tz = "Mars/Phobos" /\ RequiredColumns \subseteq upload.columns) =>
        /\ pc # "error"
        /\ pc = "uploaded" => warnings = 0
        /\ Loaded =>
              /\ warnings = 1
              /\ "warning" \in shown
              /\ df.tz = "UTC"
              /\ df = load_data(upload, "UTC")
              /\ \A i \in 1..Len(df.rows) :
                    df.rows[i]["month"] = to_period(df.rows[i]["timestamp"], "UTC")
        /\ pc = "done" => {"summary", "table"} \subseteq shown

\* A finished pass under the invalid timezone, over a frame of two records
\* or more, one of them in a month that another timezone would change.
C6_Witness ==
    /\ pc = "done"
    /\ tz = "Mars/Phobos"
    /\ warnings = 1
    /\ Len(df.rows) >= 2
    /\ \E i \in 1..Len(df.rows) :
          /\ ~IsNa(df.rows[i]["timestamp"])
          /\ to_period(df.rows[i]["timestamp"], "Asia/Tokyo") # df.rows[i]["month"]
    /\ Len(combined) >= 1

----------------------------------------------------------------------------
(* C7: a required column is missing *)

\* C7 as stated: when the file lacks a required column, the pass shows
\* neither the summary nor the table, and when it has ended in the error
\* nothing has been shown: no warning, no filter options.
C7_SchemaErrorBeforeAnyOutput ==
    ~(RequiredColumns \subseteq upload.columns) =>
        /\ pc \notin {"aggregated", "done"}
        /\ pc = "error" => shown = {} /\ warnings = 0

----------------------------------------------------------------------------
(* C8: the totals of "All" assets are the sum of the per-asset totals *)

\* The totals the pass would show with the asset filter set to one asset.
TotalsFor(a) ==
    summarize(aggregate(FilterRows(df.rows, [sel EXCEPT !.asset = a]), df.columns), df.columns)

\* The float64 sum of those totals, the assets taken in the order of the
\* asset filter's options.
RECURSIVE SumOfTotals(_, _, _)
SumOfTotals(names, c, res) ==
    IF names = <<>> THEN res
    ELSE SumOfTotals(Tail(names), c, FAdd(res, TotalsFor(Head(names))[c]))

\* C8 as stated: in a finished pass with the asset filter "All", every total
\* equals the sum, over the assets of the frame, of the total the same
\* period (and inventory) selection gives with the asset filter set to that
\* asset.
C8_TotalsAddUpOverAssets ==
    (pc = "done" /\ sel.asset = "All") =>
        /\ DOMAIN totals = agg_fields(df.columns)
        /\ \A c \in DOMAIN totals : totals[c] = SumOfTotals(domains.assets, c, Zero)

----------------------------------------------------------------------------
(* C9: load_data keeps the complete rows, in the order of the file *)

CompleteLines == {i \in 1..Len(upload.rows) : upload.rows[i]["status"] = "complete"}

\* C9: the frame load_data returns holds one row per line of the file whose
\* status is "complete", and no other, in the order of the file: the labels
\* of its rows are the numbers of those lines, increasing.
C9_ExactlyTheCompleteRows ==
    Loaded =>
        /\ Len(df.rows) = Cardinality(CompleteLines)
        /\ Len(df.rows) <= Len(upload.rows)
        /\ {Get(df.rows[k]["index"]) + 1 : k \in 1..Len(df.rows)} = CompleteLines
        /\ \A k, l \in 1..Len(df.rows) :
              k < l => Get(df.rows[k]["index"]) < Get(df.rows[l]["index"])
        /\ Len(upload.rows) = 0 => df.rows = <<>>

\* A file with a pending line and a line without status between two
\* complete lines.
C9_Witness ==
    /\ Loaded
    /\ Len(df.rows) >= 1
    /\ \E i, j \in 1..Len(upload.rows) :
          /\ upload.rows[i]["status"] = "pending"
          /\ upload.rows[j]["status"] = ""
          /\ \E k \in CompleteLines : k > i \/ k > j

----------------------------------------------------------------------------
(* C10: the inventory default *)

\* C10 as stated: without an inventory column every record gets
\* "Unspecified"; with one, the records whose inventory cell is empty get
\* "Unspecified" and every other record keeps the text of its cell.
C10_EmptyCellsDefault ==
    Loaded =>
        \A k \in 1..Len(df.rows) :
            IF "inventory" \notin upload.columns
            THEN df.rows[k]["inventory"] = Val("Unspecified")
            ELSE IF RawOf(df.rows[k])["inventory"] = ""
                 THEN df.rows[k]["inventory"] = Val("Unspecified")
                 ELSE df.rows[k]["inventory"] = Val(RawOf(df.rows[k])["inventory"])

\* C10, amended: without an inventory column every record gets
\* "Unspecified"; with one, the records whose inventory cell is empty or
\* holds one of read_csv's markers of a missing value get "Unspecified" and
\* every other record keeps the text of its cell.
C10_MissingCellsDefault ==
    Loaded =>
        \A k \in 1..Len(df.rows) :
            IF "inventory" \notin upload.columns
            THEN df.rows[k]["inventory"] = Val("Unspecified")
            ELSE IF RawOf(df.rows[k])["inventory"] \in
                      {"", "NA", "N/A", "NaN", "nan", "null", "NULL", "None", "#N/A", "n/a"}
                 THEN df.rows[k]["inventory"] = Val("Unspecified")
                 ELSE df.rows[k]["inventory"] = Val(RawOf(df.rows[k])["inventory"])

\* A frame from a file with an inventory column that holds a name, an empty
\* cell and the marker NA.
C10_Witness ==
    /\ Loaded
    /\ "inventory" \in upload.columns
    /\ \E i, j, k \in 1..Len(df.rows) :
          /\ RawOf(df.rows[i])["inventory"] = "Main"
          /\ RawOf(df.rows[j])["inventory"] = ""
          /\ RawOf(df.rows[k])["inventory"] = "NA"

====
